---- MODULE Spec2Model ----
(***************************************************************************)
(* Model of apps/spinner-extension/samples/generate_csvs.py: the two name  *)
(* tables, generate_participants, write_csv and main.  Strings are TLA+    *)
(* strings; a CSV file is the sequence of its rows, a row the tuple of its *)
(* three fields in fieldnames order.                                       *)
(***************************************************************************)
EXTENDS Integers, Sequences, FiniteSets, TLC

VARIABLES first_names,   \* module-level list first_names
          last_names,    \* module-level list last_names
          batches,       \* the calls main makes: <<filename, count, start_ticket>>
          k,             \* index of the batch main is working on
          pc,            \* position inside main / write_csv
          locals,        \* main's local variables participants_*: one per batch
          fs,            \* the samples directory: filename -> file
          handles,       \* file names with an open file object
          stdout,        \* lines printed so far
          stderr,        \* uncaught exception reported by the interpreter
          rng,           \* state of the module random: seed and position
          width_evals    \* evaluations of the padding width expression (line 38)

vars == <<first_names, last_names, batches, k, pc, locals, fs, handles,
          stdout, stderr, rng, width_evals>>

(***************************************************************************)
(* Bounds                                                                  *)
(***************************************************************************)
MaxCount == 3        \* largest count of an enumerated call
MaxNegCount == 2     \* enumerated counts go down to -MaxNegCount
MaxStart == 11       \* largest start_ticket of an enumerated call
MaxNegStart == 11    \* enumerated start_tickets go down to -MaxNegStart
RandBase == 2        \* raw random values are 0..RandBase-1
TapeLen == 4         \* period of the enumerated random streams
MaxPartial == 2      \* a failing writerows leaves fewer than MaxPartial rows

(***************************************************************************)
(* The name tables (lines 11-30)                                           *)
(***************************************************************************)
FirstNamesTable ==
  << "James", "Mary", "Robert", "Patricia", "John", "Jennifer", "Michael", "Linda",
     "David", "Elizabeth", "William", "Barbara", "Richard", "Susan", "Joseph", "Jessica",
     "Thomas", "Sarah", "Christopher", "Karen", "Charles", "Lisa", "Daniel", "Nancy",
     "Matthew", "Betty", "Anthony", "Helen", "Mark", "Sandra", "Donald", "Donna",
     "Steven", "Carol", "Kenneth", "Ruth", "Andrew", "Sharon", "Joshua", "Michelle",
     "Kevin", "Laura", "Brian", "Emily", "George", "Kimberly", "Timothy", "Deborah",
     "Ronald", "Dorothy", "Edward", "Amy", "Jason", "Angela", "Jeffrey", "Ashley" >>

LastNamesTable ==
  << "Smith", "Johnson", "Williams", "Brown", "Jones", "Garcia", "Miller", "Davis",
     "Rodriguez", "Martinez", "Hernandez", "Lopez", "Gonzalez", "Wilson", "Anderson",
     "Thomas", "Taylor", "Moore", "Jackson", "Martin", "Lee", "Perez", "Thompson",
     "White", "Harris", "Sanchez", "Clark", "Ramirez", "Lewis", "Robinson", "Walker",
     "Young", "Allen", "King", "Wright", "Scott", "Torres", "Nguyen", "Hill",
     "Flores", "Green", "Adams", "Nelson", "Baker", "Hall", "Rivera", "Campbell",
     "Mitchell", "Carter", "Roberts", "Gomez", "Phillips", "Evans", "Turner", "Diaz" >>

(***************************************************************************)
(* str(int), str.zfill and the {:,} format                                 *)
(***************************************************************************)
Digit(d) ==
  CASE d = 0 -> "0" [] d = 1 -> "1" [] d = 2 -> "2" [] d = 3 -> "3" [] d = 4 -> "4"
    [] d = 5 -> "5" [] d = 6 -> "6" [] d = 7 -> "7" [] d = 8 -> "8" [] d = 9 -> "9"

RECURSIVE StrNat(_)
StrNat(n) == IF n < 10 THEN Digit(n) ELSE StrNat(n \div 10) \o Digit(n % 10)

\* str(n) for an int n
str(n) == IF n < 0 THEN "-" \o StrNat(-n) ELSE StrNat(n)

RECURSIVE Zeros(_)
Zeros(n) == IF n <= 0 THEN "" ELSE "0" \o Zeros(n - 1)

\* s.zfill(width): the sign, if any, stays in front of the padding; a string
\* already width long or longer is returned as it is
zfill(s, width) ==
  IF Len(s) >= width THEN s
  ELSE IF Head(s) = "-" \/ Head(s) = "+"
       THEN Head(s) \o Zeros(width - Len(s)) \o Tail(s)
       ELSE Zeros(width - Len(s)) \o s

RECURSIVE FormatThousands(_)
\* f"{n:,}" for n >= 0
FormatThousands(n) ==
  IF n < 1000 THEN StrNat(n)
  ELSE FormatThousands(n \div 1000) \o "," \o zfill(StrNat(n % 1000), 3)

(***************************************************************************)
(* random.choice                                                           *)
(***************************************************************************)
RECURSIVE Pow(_, _)
Pow(b, e) == IF e = 0 THEN 1 ELSE b * Pow(b, e - 1)

\* the raw value the generator seeded with seed yields at position pos: the
\* seed read as a cyclic tape of TapeLen digits in base RandBase
Raw(seed, pos) == (seed \div Pow(RandBase, pos % TapeLen)) % RandBase

\* random.choice(seq) with the generator in state r
choice(seq, r) == seq[(Raw(r.seed, r.pos) % Len(seq)) + 1]

(***************************************************************************)
(* generate_participants (lines 32-44)                                     *)
(*                                                                         *)
(* A list of participants is a function of the arguments of the call and   *)
(* of the generator state at the call.  The state keeps a list as those    *)
(* three values; Item is its j-th record and Items the list itself.        *)
(***************************************************************************)
\* ticket with the loop index counted from 1
ticket_from_one(count, start_ticket, i) ==
  zfill(str(start_ticket + i + 1), Len(str(start_ticket + count - 1)))

\* the ticket of loop index i (line 38)
ticket(count, start_ticket, i) ==
  zfill(str(start_ticket + i), Len(str(start_ticket + count - 1)))

\* number of loop iterations of range(count): none for count <= 0
Iterations(count) == IF count > 0 THEN count ELSE 0

\* the width expression hoisted out of the loop: evaluated once per call
WidthEvalsHoisted(count) == 1

\* number of evaluations of the width expression: one per iteration (line 38)
WidthEvals(count) == Iterations(count)

\* the list generate_participants(count, start_ticket) returns when the
\* generator is in state r
generate_participants(count, start_ticket, r) ==
  [count |-> count, start_ticket |-> start_ticket, r |-> r]

\* Item with the two tables taken for one another
ItemSwapped(l, j) ==
  [first |-> choice(last_names, [l.r EXCEPT !.pos = l.r.pos + 2 * (j - 1)]),
   last |-> choice(first_names, [l.r EXCEPT !.pos = l.r.pos + 2 * (j - 1) + 1]),
   ticket_number |-> zfill(str(l.start_ticket + (j - 1)),
                           Len(str(l.start_ticket + l.count - 1)))]

\* record j (from 1) of list l: loop index j-1 draws the first name, then the
\* last name, and formats the ticket (lines 36-43)
Item(l, j) ==
  [first |-> choice(first_names, [l.r EXCEPT !.pos = l.r.pos + 2 * (j - 1)]),
   last |-> choice(last_names, [l.r EXCEPT !.pos = l.r.pos + 2 * (j - 1) + 1]),
   ticket_number |-> ticket(l.count, l.start_ticket, j - 1)]

\* len(l)
Length(l) == Iterations(l.count)

\* the records of l, in order
Items(l) == [j \in 1..Length(l) |-> Item(l, j)]

NoList == generate_participants(0, 0, [seed |-> 0, pos |-> 0])

(***************************************************************************)
(* write_csv (lines 46-53)                                                 *)
(*                                                                         *)
(* A file is kept as what was written to it: content left by an earlier    *)
(* run (old), the header row (header) and the first `written' rows of the  *)
(* list src.  Rows is the content, RowAt its i-th row.                     *)
(***************************************************************************)
fieldnames == <<"first", "last", "ticket_number">>

\* DictWriter: the row of a dict is its values in fieldnames order
DictRow(p) == <<p.first, p.last, p.ticket_number>>

\* what a file left by an earlier run holds
StaleRows == <<fieldnames, <<"Old", "Row", "00001">>, <<"Old", "Row", "00002">>>>

NoFile == [exists |-> FALSE, old |-> FALSE, header |-> FALSE, written |-> 0,
           src |-> NoList]
StaleFile == [NoFile EXCEPT !.exists = TRUE, !.old = TRUE]
EmptyFile == [NoFile EXCEPT !.exists = TRUE]

RowCount(f) ==
  (IF f.old THEN Len(StaleRows) ELSE 0) + (IF f.header THEN 1 ELSE 0) + f.written

RowAt(f, i) ==
  LET o == IF f.old THEN Len(StaleRows) ELSE 0
      h == IF f.header THEN 1 ELSE 0
  IN IF i <= o THEN StaleRows[i]
     ELSE IF i <= o + h THEN fieldnames
     ELSE DictRow(Item(f.src, i - o - h))

Rows(f) == [i \in 1..RowCount(f) |-> RowAt(f, i)]

Unbound == [bound |-> FALSE, value |-> NoList]

\* every batch written to the file of the first
CurFileFixed == batches[1][1]

CurFile == batches[k][1]
CurCount == batches[k][2]
CurStart == batches[k][3]
CurList == locals[k].value

\* the exception caught and logged inside write_csv, which then goes on
CrashSwallowed(kind) ==
  /\ pc' = "print"
  /\ stderr' = <<[exc |-> kind, filename |-> batches[k][1]]>>
  /\ handles' = handles \ {batches[k][1]}

\* an exception nobody catches: the with statement closes the file, the
\* interpreter prints the traceback and exits
Crash(kind) ==
  /\ pc' = "crashed"
  /\ stderr' = <<[exc |-> kind, filename |-> CurFile]>>
  /\ handles' = handles \ {CurFile}

\* participants_x = generate_participants(count, start)   (lines 59, 63, ...)
Generate ==
  /\ pc = "generate"
  /\ locals' = [locals EXCEPT ![k] =
                  [bound |-> TRUE,
                   value |-> generate_participants(CurCount, CurStart, rng)]]
  /\ rng' = [rng EXCEPT !.pos = rng.pos + 2 * Iterations(CurCount)]
  /\ width_evals' = width_evals + WidthEvals(CurCount)
  /\ pc' = "open"
  /\ UNCHANGED <<first_names, last_names, batches, k, fs, handles, stdout, stderr>>

\* the file opened in mode 'a': what it held stays
OpenFileAppend ==
  /\ pc = "open"
  /\ fs' = [fs EXCEPT ![batches[k][1]].exists = TRUE]
  /\ handles' = handles \cup {batches[k][1]}
  /\ pc' = "writeheader"
  /\ UNCHANGED <<first_names, last_names, batches, k, locals, stdout, stderr,
                 rng, width_evals>>

\* open(output_path, 'w', newline='')   (line 49): creates or truncates
OpenFile ==
  /\ pc = "open"
  /\ fs' = [fs EXCEPT ![CurFile] = EmptyFile]
  /\ handles' = handles \cup {CurFile}
  /\ pc' = "writeheader"
  /\ UNCHANGED <<first_names, last_names, batches, k, locals, stdout, stderr,
                 rng, width_evals>>

\* open raises OSError: nothing is created or truncated
OpenFails ==
  /\ pc = "open"
  /\ Crash("OSError")
  /\ UNCHANGED <<first_names, last_names, batches, k, locals, fs, stdout,
                 rng, width_evals>>

\* writer.writeheader()   (line 51)
WriteHeader ==
  /\ pc = "writeheader"
  /\ fs' = [fs EXCEPT ![CurFile].header = TRUE]
  /\ pc' = "writerows"
  /\ UNCHANGED <<first_names, last_names, batches, k, locals, handles, stdout,
                 stderr, rng, width_evals>>

\* the write of the header fails
WriteHeaderFails ==
  /\ pc = "writeheader"
  /\ Crash("OSError")
  /\ UNCHANGED <<first_names, last_names, batches, k, locals, fs, stdout,
                 rng, width_evals>>

\* writer.writerows(participants)   (line 52)
WriteRows ==
  /\ pc = "writerows"
  /\ fs' = [fs EXCEPT ![CurFile].src = CurList,
                      ![CurFile].written = Length(CurList)]
  /\ pc' = "close"
  /\ UNCHANGED <<first_names, last_names, batches, k, locals, handles, stdout,
                 stderr, rng, width_evals>>

\* the write fails after n rows reached the file
WriteRowsFails ==
  /\ pc = "writerows"
  /\ \E n \in 0..(MaxPartial - 1) :
       /\ n < Length(CurList)
       /\ fs' = [fs EXCEPT ![CurFile].src = CurList, ![CurFile].written = n]
  /\ Crash("OSError")
  /\ UNCHANGED <<first_names, last_names, batches, k, locals, stdout,
                 rng, width_evals>>

\* leaving the with block closes the file   (lines 49-52)
CloseFile ==
  /\ pc = "close"
  /\ handles' = handles \ {CurFile}
  /\ pc' = "print"
  /\ UNCHANGED <<first_names, last_names, batches, k, locals, fs, stdout,
                 stderr, rng, width_evals>>

\* print(f"... Generated {filename}: {len(participants):,} entries")  (line 53)
\* and the return to main, which goes on to its next call
PrintGenerated ==
  /\ pc = "print"
  /\ stdout' = Append(stdout, [text |-> "Generated", filename |-> CurFile,
                               entries |-> FormatThousands(Length(CurList))])
  /\ k' = k + 1
  /\ pc' = IF k < Len(batches) THEN "generate" ELSE "final"
  /\ UNCHANGED <<first_names, last_names, batches, locals, fs, handles,
                 stderr, rng, width_evals>>

\* the two closing prints and the return of main, which drops its locals
\* (lines 78-79)
PrintFinal ==
  /\ pc = "final"
  /\ stdout' = stdout \o
       <<[text |-> "All sample CSV files generated successfully!",
          filename |-> "", entries |-> ""],
         [text |-> "Files are located in: apps/spinner-extension/samples/",
          filename |-> "", entries |-> ""]>>
  /\ pc' = "done"
  /\ locals' = [b \in DOMAIN locals |-> Unbound]
  /\ UNCHANGED <<first_names, last_names, batches, k, fs, handles, stderr,
                 rng, width_evals>>

Next ==
  \/ Generate
  \/ OpenFile
  \/ OpenFails
  \/ WriteHeader
  \/ WriteHeaderFails
  \/ WriteRows
  \/ WriteRowsFails
  \/ CloseFile
  \/ PrintGenerated
  \/ PrintFinal

(***************************************************************************)
(* Initial states                                                          *)
(***************************************************************************)
FileNames(b) == {b[j][1] : j \in 1..Len(b)}

\* every seed of a tape of TapeLen values
Seeds == 0..(Pow(RandBase, TapeLen) - 1)

InitWith(b) ==
  /\ first_names = FirstNamesTable
  /\ last_names = LastNamesTable
  /\ batches = b
  /\ k = 1
  /\ pc = "generate"
  /\ locals = [j \in 1..Len(b) |-> Unbound]
  /\ \E stale \in BOOLEAN :
       fs = [f \in FileNames(b) |-> IF stale THEN StaleFile ELSE NoFile]
  /\ handles = {}
  /\ stdout = <<>>
  /\ stderr = <<>>
  /\ \E s \in Seeds : rng = [seed |-> s, pos |-> 0]
  /\ width_evals = 0

\* one call of generate_participants followed by write_csv, on any arguments
Init ==
  \E c \in (0 - MaxNegCount)..MaxCount, s \in (0 - MaxNegStart)..MaxStart :
    InitWith(<< <<"out.csv", c, s>> >>)

Spec == Init /\ [][Next]_vars

\* the calls of main with the third range starting one ticket early
MainBatchesEarly ==
  << <<"raffle-5k.csv", 5000, 10001>>,
     <<"raffle-10k.csv", 10000, 20001>>,
     <<"raffle-25k.csv", 25000, 50000>>,
     <<"raffle-50k.csv", 50000, 100001>>,
     <<"raffle-100k.csv", 100000, 200001>> >>

\* the calls of main (lines 59-76)
MainBatches ==
  << <<"raffle-5k.csv", 5000, 10001>>,
     <<"raffle-10k.csv", 10000, 20001>>,
     <<"raffle-25k.csv", 25000, 50001>>,
     <<"raffle-50k.csv", 50000, 100001>>,
     <<"raffle-100k.csv", 100000, 200001>> >>

InitMain == InitWith(MainBatches)

SpecMain == InitMain /\ [][Next]_vars

(***************************************************************************)
(* Reading a ticket back                                                   *)
(***************************************************************************)
IsDigitChar(c) == \E d \in 0..9 : Digit(d) = c

CharDigit(c) == CHOOSE d \in 0..9 : Digit(d) = c

IsDigits(s) == Len(s) > 0 /\ \A i \in 1..Len(s) : IsDigitChar(SubSeq(s, i, i))

RECURSIVE DecimalValue(_)
DecimalValue(s) ==
  IF Len(s) = 0 THEN 0
  ELSE 10 * DecimalValue(SubSeq(s, 1, Len(s) - 1)) + CharDigit(SubSeq(s, Len(s), Len(s)))

Range(seq) == {seq[i] : i \in 1..Len(seq)}

Abs(n) == IF n < 0 THEN 0 - n ELSE n

Count(b) == batches[b][2]
Start(b) == batches[b][3]
File(b) == batches[b][1]
\* the call for batch b has returned, and its list
Returned(b) == locals[b].bound
List(b) == Items(locals[b].value)

\* write_csv has returned for the batch main is working on
WriteReturned == pc \in {"print", "final"}

(***************************************************************************)
(* Properties of generate_participants and write_csv                       *)
(***************************************************************************)

\* C1: for count >= 0 and start_ticket >= 1 the list returned has exactly
\* count records, the record at index i carries the decimal digits of
\* start_ticket + i behind leading zeros only, and so the tickets ascend
\* without duplicates or gaps.
C1_TicketsContiguous ==
  \A b \in 1..Len(batches) :
    (Returned(b) /\ Count(b) >= 0 /\ Start(b) >= 1) =>
       /\ Len(List(b)) = Count(b)
       /\ \A j \in 1..Len(List(b)) :
            /\ IsDigits(List(b)[j].ticket_number)
            /\ DecimalValue(List(b)[j].ticket_number) = Start(b) + (j - 1)
       /\ \A i, j \in 1..Len(List(b)) :
            i < j => /\ List(b)[i].ticket_number # List(b)[j].ticket_number
                     /\ DecimalValue(List(b)[i].ticket_number)
                          < DecimalValue(List(b)[j].ticket_number)

C1_Witness ==
  /\ Returned(1) /\ Count(1) = 3 /\ Start(1) = 8
  /\ List(1)[1].ticket_number = "08"
  /\ List(1)[2].ticket_number = "09"
  /\ List(1)[3].ticket_number = "10"

\* C2: in a batch with count >= 1 every ticket_number has the same length,
\* the digit count of start_ticket + count - 1, whatever start_ticket is.
C2_EqualWidthAnyStart ==
  \A b \in 1..Len(batches) :
    (Returned(b) /\ Count(b) >= 1) =>
       \A j \in 1..Len(List(b)) :
          /\ Len(List(b)[j].ticket_number) = Len(List(b)[1].ticket_number)
          /\ \/ Len(List(b)[j].ticket_number) = Len(str(Start(b) + Count(b) - 1))
             \/ Len(List(b)[j].ticket_number)
                  = Len(StrNat(Abs(Start(b) + Count(b) - 1)))

\* C3: a negative count fails with InvalidArgument: no list is returned and
\* no file is opened or written for the batch.
C3_NegativeCountRejected ==
  \A b \in 1..Len(batches) :
    Count(b) < 0 =>
       /\ ~Returned(b)
       /\ File(b) \notin handles
       /\ fs[File(b)] \in {NoFile, StaleFile}
       /\ (k = b /\ pc # "generate") =>
             /\ pc = "crashed"
             /\ stderr # <<>>
             /\ stderr[1].exc = "InvalidArgument"

\* C4: for count = 0 the list returned is empty, the padding width was never
\* evaluated and nothing was raised, and once write_csv has returned the file
\* holds the header row and nothing else.
C4_ZeroCount ==
  \A b \in 1..Len(batches) :
    Count(b) = 0 =>
       /\ (k > b \/ pc # "generate") => Returned(b) \/ pc = "done"
       /\ Returned(b) => List(b) = <<>> /\ width_evals = 0
       /\ (k = b /\ WriteReturned) =>
             /\ fs[File(b)].exists
             /\ Rows(fs[File(b)]) = << <<"first", "last", "ticket_number">> >>

C4_Witness ==
  /\ Count(1) = 0 /\ Start(1) = 5 /\ k = 1 /\ pc = "print"
  /\ Returned(1) /\ List(1) = <<>>
  /\ Rows(fs["out.csv"]) = << <<"first", "last", "ticket_number">> >>

\* C5: when write_csv returns normally the file holds the header row and then
\* one row per record, in list order and in the field order first, last,
\* ticket_number; nothing of the old content is left and the file is closed.
C5_FileAfterWrite ==
  (k <= Len(batches) /\ WriteReturned) =>
     /\ fs[CurFile].exists
     /\ CurFile \notin handles
     /\ Len(Rows(fs[CurFile])) = 1 + Len(List(k))
     /\ Rows(fs[CurFile])[1] = <<"first", "last", "ticket_number">>
     /\ \A j \in 1..Len(List(k)) :
          Rows(fs[CurFile])[j + 1]
            = <<List(k)[j].first, List(k)[j].last, List(k)[j].ticket_number>>

C5_Witness ==
  /\ k = 1 /\ pc = "print" /\ Count(1) = 2 /\ Start(1) = 9
  /\ Rows(fs["out.csv"]) = << <<"first", "last", "ticket_number">>,
                              <<"Mary", "Smith", "09">>,
                              <<"James", "Johnson", "10">> >>

\* C9: every record returned has its first name in the first-name table and
\* its last name in the last-name table, and the tables never change.
C9_NamesFromTables ==
  /\ first_names = FirstNamesTable
  /\ last_names = LastNamesTable
  /\ \A b \in 1..Len(batches) :
       Returned(b) =>
         \A j \in 1..Len(List(b)) :
            /\ List(b)[j].first \in Range(FirstNamesTable)
            /\ List(b)[j].last \in Range(LastNamesTable)

C9_Witness ==
  /\ Returned(1) /\ Len(List(1)) = 3
  /\ List(1)[1].first = "Mary" /\ List(1)[1].last = "Smith"
  /\ List(1)[2].first = "James" /\ List(1)[2].last = "Johnson"

(***************************************************************************)
(* Properties of main                                                      *)
(***************************************************************************)
\* file, data rows, first ticket, last ticket, row count as printed
MainExpected ==
  << <<"raffle-5k.csv", 5000, "10001", "15000", "5,000">>,
     <<"raffle-10k.csv", 10000, "20001", "30000", "10,000">>,
     <<"raffle-25k.csv", 25000, "50001", "75000", "25,000">>,
     <<"raffle-50k.csv", 50000, "100001", "150000", "50,000">>,
     <<"raffle-100k.csv", 100000, "200001", "300000", "100,000">> >>

\* the file of MainExpected[b] is complete and closed
ExpectedFileWritten(b) ==
  LET e == MainExpected[b]
      f == fs[e[1]]
  IN /\ f.exists
     /\ e[1] \notin handles
     /\ RowCount(f) = e[2] + 1
     /\ RowAt(f, 1) = <<"first", "last", "ticket_number">>
     /\ RowAt(f, 2)[3] = e[3]
     /\ RowAt(f, e[2] + 1)[3] = e[4]
     /\ \A i \in {2, 3, e[2] \div 2, e[2], e[2] + 1} :
          /\ IsDigits(RowAt(f, i)[3])
          /\ DecimalValue(RowAt(f, i)[3]) = DecimalValue(e[3]) + (i - 2)
          /\ RowAt(f, i)[1] \in Range(FirstNamesTable)
          /\ RowAt(f, i)[2] \in Range(LastNamesTable)

\* C6: a run of main without a failure handles the five batches in table
\* order, each generated before it is written, and ends with the five files
\* holding 5000, 10000, 25000, 50000 and 100000 data rows with the tickets
\* 10001-15000, 20001-30000, 50001-75000, 100001-150000, 200001-300000; the
\* completion line of a file (name and row count) follows its writing.
C6_MainRun ==
  /\ pc = "done" =>
       /\ DOMAIN fs = {MainExpected[b][1] : b \in 1..5}
       /\ \A b \in 1..5 : ExpectedFileWritten(b)
       /\ Len(stdout) = 7
       /\ \A b \in 1..5 : stdout[b].text = "Generated"
  /\ \A i \in 1..Len(stdout) :
       stdout[i].text = "Generated" =>
          /\ i <= 5
          /\ stdout[i].filename = MainExpected[i][1]
          /\ stdout[i].entries = MainExpected[i][5]
          /\ ExpectedFileWritten(i)
  /\ \A b \in 1..Len(batches) :
       fs[File(b)] \notin {NoFile, StaleFile} =>
          /\ Returned(b) \/ pc = "done"
          /\ \A a \in 1..(b - 1) : ExpectedFileWritten(a)

C6_Witness ==
  /\ pc = "done"
  /\ RowCount(fs["raffle-100k.csv"]) = 100001
  /\ RowAt(fs["raffle-100k.csv"], 100001)[3] = "300000"
  /\ RowAt(fs["raffle-5k.csv"], 2) = <<"Mary", "Smith", "10001">>
  /\ stdout[5].entries = "100,000"

\* the file of batch b holds the header and every row of the list of batch b
HoldsBatch(f, b) ==
  /\ f.exists
  /\ RowCount(f) = Count(b) + 1
  /\ RowAt(f, 1) = fieldnames
  /\ \A j \in {1, Count(b)} : RowAt(f, j + 1) = DictRow(Item(locals[b].value, j))

\* C7: when batch k fails the error is reported, naming the file, and no file
\* written by an earlier batch changes: each keeps the header and the rows of
\* its batch.
C7_EarlierFilesKept ==
  [][ /\ \A b \in 1..Len(batches) : b < k => fs'[File(b)] = fs[File(b)]
      /\ pc' = "crashed" =>
           /\ stderr' = <<[exc |-> "OSError", filename |-> batches[k][1]]>>
           /\ \A b \in 1..(k - 1) : HoldsBatch(fs'[File(b)], b)
    ]_vars

C7_Witness ==
  /\ pc = "crashed" /\ k = 3
  /\ stderr = <<[exc |-> "OSError", filename |-> "raffle-25k.csv"]>>
  /\ RowCount(fs["raffle-25k.csv"]) = 2
  /\ RowCount(fs["raffle-10k.csv"]) = 10001
  /\ RowCount(fs["raffle-5k.csv"]) = 5001

\* C8: when the generation of a batch begins, the file handle of every
\* earlier batch is closed and the record list of every earlier batch is no
\* longer held.
C8_EarlierBatchesReleased ==
  (pc = "generate" /\ k <= Len(batches)) =>
     /\ handles = {}
     /\ \A b \in 1..(k - 1) : ~Returned(b)

FailedBatch == CHOOSE b \in 1..Len(batches) : File(b) = stderr[1].filename

FinalPrinted ==
  \E i \in 1..Len(stdout) :
     stdout[i].text = "All sample CSV files generated successfully!"

\* C10: main halts on the first failure: after batch k has raised, no later
\* batch is generated, no file of a later batch is created or changed, there
\* is no completion line for batch k or a later one and no final message;
\* the final message is printed only after all five files are written and
\* closed.
C10_HaltsOnFirstFailure ==
  /\ stderr # <<>> =>
       /\ pc = "crashed"
       /\ k = FailedBatch
       /\ \A b \in (FailedBatch + 1)..Len(batches) :
            ~Returned(b) /\ fs[File(b)] \in {NoFile, StaleFile}
       /\ Len(stdout) = FailedBatch - 1
       /\ \A i \in 1..Len(stdout) : stdout[i].filename = File(i)
       /\ ~FinalPrinted
  /\ FinalPrinted =>
       /\ handles = {}
       /\ \A b \in 1..5 : ExpectedFileWritten(b)

C10_Witness ==
  /\ pc = "crashed" /\ k = 2
  /\ stderr = <<[exc |-> "OSError", filename |-> "raffle-10k.csv"]>>
  /\ Len(stdout) = 1
  /\ RowCount(fs["raffle-10k.csv"]) = 2
  /\ fs["raffle-25k.csv"] \in {NoFile, StaleFile}

====
